---- MODULE Spec2Model ----
(***************************************************************************)
(* Model of github.com/andreasisnes/requester: a Client creates a Request, *)
(* request options configure it (Dry, Do), Do sends it through the retry   *)
(* loop of Request.sender, and Response.Handle runs the response steps.    *)
(***************************************************************************)
EXTENDS Integers, Sequences, FiniteSets, TLC

\* ------------------------------------------------------------------ bounds
\* largest retries argument given to WithRetryPolicy (the smallest is -1)
MaxRetriesArg == 3
\* largest FallbackDuration given to WithRetryPolicy, in milliseconds
MaxDuration == 1
\* most request options passed to one Dry or Do
MaxOpts == 2
\* most response steps passed to one Handle
MaxSteps == 2

\* --------------------------------------------------------- program constants
FallbackPolicyLinear == 0
FallbackPolicyExponential == 1
\* upper clamp of WithRetryPolicy
RetriesLimit == 10
\* the timeout the repository's tests pass to the timeout option
TestTimeout == 1

Policies == {FallbackPolicyLinear, FallbackPolicyExponential}
\* the policy values given to WithRetryPolicy: FallbackPolicy is an int, so a
\* value outside the two constants can be given as well
PolicyArgs == Policies \cup {FallbackPolicyExponential + 1}
\* statuses the transport may answer with, and the codes a policy may retry on
StatusCodes == {200, 404, 503}
RetryableSets == {{}, {503}}

\* ------------------------------------------------------------------ errors
\* An error value: nil, a single error, or the multi-error of errors.Join.
\* An error made from a text carries the text in msg; the error of a failed
\* status assertion carries the asserted codes.
Nil == [kind |-> "nil", tag |-> "", n |-> 0, code |-> 0, errs |-> <<>>,
        msg |-> <<>>, codes |-> {}]

Leaf(tag, n, code) ==
    [kind |-> "leaf", tag |-> tag, n |-> n, code |-> code, errs |-> <<>>,
     msg |-> <<>>, codes |-> {}]

NonNil(e) == e # Nil

\* errors.Join: nil values are discarded; nil when nothing is left, else a
\* multi-error whose Unwrap() is the remaining errors in order.
Join(es) ==
    LET nn == SelectSeq(es, NonNil)
    IN  IF nn = <<>> THEN Nil
        ELSE [kind |-> "join", tag |-> "", n |-> 0, code |-> 0, errs |-> nn,
              msg |-> <<>>, codes |-> {}]

\* Unwrap() []error of a multi-error
Unwrap(e) == e.errs

\* ------------------------------------------------------------- http values
\* a body (io.ReadCloser): nil, or a reader with the bytes not yet read
NoBody == [present |-> FALSE, data |-> <<>>]
Reader(data) == [present |-> TRUE, data |-> data]

\* io.ReadAll / io.Copy on a body: what is read, and the drained body left
ReadAll(body) == body.data
Drained(body) == [body EXCEPT !.data = <<>>]

\* *http.Response: nil, or a response with the status the transport answered
\* in the given attempt; &http.Response{} is the zero value.  The transport
\* gives every response a body; the responses of the retry loop have an
\* empty one.
NilResponse == [present |-> FALSE, StatusCode |-> 0, attempt |-> 0, Body |-> NoBody]
EmptyResponse == [present |-> TRUE, StatusCode |-> 0, attempt |-> 0, Body |-> NoBody]
Received(status, a) ==
    [present |-> TRUE, StatusCode |-> status, attempt |-> a, Body |-> Reader(<<>>)]

\* what one call of the transport (http.Client.Do) gives back, and whether
\* the transport read the body of the request: an error before the request
\* was written, an error after it was written, or a response
TransportError == [ok |-> FALSE, StatusCode |-> 0, read |-> FALSE]
TransportErrorAfterWrite == [ok |-> FALSE, StatusCode |-> 0, read |-> TRUE]
TransportStatus(s) == [ok |-> TRUE, StatusCode |-> s, read |-> TRUE]
Outcomes == {TransportError} \cup {TransportStatus(s) : s \in StatusCodes}

\* ----------------------------------------------------------------- request
\* contents of the bodies given to WithBody
Bodies == {<<>>, <<"a", "b">>}

\* the Request; Client.Request passes a nil body to http.NewRequestWithContext
NoRequest ==
    [Request |-> FALSE, Error |-> Nil, Retries |-> 0, FallbackDuration |-> 0,
     FallbackPolicy |-> FallbackPolicyLinear, FallbackStatusCodes |-> {},
     Body |-> NoBody, ContentLength |-> 0]

\* Client.Request: url.JoinPath may fail (err), http.NewRequestWithContext may
\* fail (e, and then the request is nil); e is joined onto err.
NewRequest(joinFails, newFails) ==
    LET err == IF joinFails THEN Leaf("JoinPath", 0, 0) ELSE Nil
        e   == IF newFails THEN Leaf("NewRequest", 0, 0) ELSE Nil
    IN  [NoRequest EXCEPT !.Request = ~newFails,
                          !.Error = IF newFails THEN Join(<<err, e>>) ELSE err]

\* ----------------------------------------------------------------- options
Opt(kind, retries, duration, policy, codes) ==
    [kind |-> kind, retries |-> retries, duration |-> duration,
     policy |-> policy, statuscodes |-> codes,
     body |-> <<>>, fails |-> FALSE, opts |-> <<>>]

SeqsUpTo(S, n) == UNION {[1..k -> S] : k \in 0..n}

\* the options given to Dry and Do, WithRetryPolicy with retries from a set
OptionsWith(retries) ==
    {Opt("WithURL", 0, 0, FallbackPolicyLinear, {}),
     Opt("WithTimeout", 0, TestTimeout, FallbackPolicyLinear, {})}
    \cup {Opt("WithRetryPolicy", n, d, p, c) :
            n \in retries, d \in 0..MaxDuration,
            p \in PolicyArgs, c \in RetryableSets}

RequestOptions == OptionsWith((-1)..MaxRetriesArg)

\* retries values around both clamps of WithRetryPolicy
RetriesArgs == ((-1)..MaxRetriesArg) \cup ((RetriesLimit - 1)..(RetriesLimit + 2))

PolicyOptions == OptionsWith(RetriesArgs)

\* WithBody(body): the reader holds the given bytes, or fails when read
BodyOption(data, fails) ==
    [Opt("WithBody", 0, 0, FallbackPolicyLinear, {}) EXCEPT
        !.body = data, !.fails = fails]

BodyOptions ==
    {BodyOption(data, FALSE) : data \in Bodies} \cup {BodyOption(<<>>, TRUE)}

\* WithRequestOptions(opts...)
Composite(opts) ==
    [Opt("WithRequestOptions", 0, 0, FallbackPolicyLinear, {}) EXCEPT !.opts = opts]

\* the options a composite is built from, and the composites
ComposedFrom ==
    {Opt("WithURL", 0, 0, FallbackPolicyLinear, {}),
     Opt("WithTimeout", 0, TestTimeout, FallbackPolicyLinear, {}),
     Opt("WithRetryPolicy", 1, 1, FallbackPolicyExponential, {503}),
     BodyOption(<<"a", "b">>, FALSE)}

ComposedOptions == {Composite(opts) : opts \in SeqsUpTo(ComposedFrom, MaxOpts)}

ComposeOptions == ComposedFrom \cup BodyOptions \cup ComposedOptions

\* no option: the loop variable of Dry and Do outside their loops
NoOpt == Opt("", 0, 0, FallbackPolicyLinear, {})

\* a WithRetryPolicy without the upper clamp
WithRetryPolicy_NoUpperClamp(req, o) ==
    [req EXCEPT !.Retries = IF o.retries < 0 THEN 0 ELSE o.retries,
                !.FallbackDuration = o.duration,
                !.FallbackPolicy = o.policy,
                !.FallbackStatusCodes = o.statuscodes]

\* WithRetryPolicy: clamps retries to [0, 10] and stores the policy.
WithRetryPolicy(req, o) ==
    LET retries == IF o.retries < 0 THEN 0
                   ELSE IF o.retries > RetriesLimit THEN RetriesLimit
                   ELSE o.retries
    IN  [req EXCEPT !.Retries = retries,
                    !.FallbackDuration = o.duration,
                    !.FallbackPolicy = o.policy,
                    !.FallbackStatusCodes = o.statuscodes]

\* WithBody: copies the reader into a buffer; the buffer becomes the body
WithBody(req, o) ==
    [req EXCEPT !.Body = Reader(o.body), !.ContentLength = Len(o.body)]

\* One option called on the request; i is its position in the call.  WithURL
\* is given a URL that does not parse: it returns the error and changes
\* nothing.  WithTimeout writes the Timeout of the embedded *http.Client.
\* WithBody returns the error of a reader that fails and changes nothing.
\* WithRequestOptions calls every option it was given.
RECURSIVE ApplyOption(_, _, _, _)
RECURSIVE Compose(_, _, _, _)

\* the loop of WithRequestOptions from option k on:
\* err = errors.Join(err, opt(request))
Compose(res, opts, i, k) ==
    IF k > Len(opts) THEN res
    ELSE LET one == ApplyOption(res.r, res.client, opts[k], i)
         IN  Compose([r |-> one.r, client |-> one.client,
                      err |-> Join(<<res.err, one.err>>)], opts, i, k + 1)

ApplyOption(req, cl, o, i) ==
    CASE o.kind = "WithURL" ->
            [r |-> req, client |-> cl, err |-> Leaf("option", i, 0)]
      [] o.kind = "WithTimeout" ->
            [r |-> req, client |-> [cl EXCEPT !.Timeout = o.duration], err |-> Nil]
      [] o.kind = "WithBody" ->
            IF o.fails
               THEN [r |-> req, client |-> cl, err |-> Leaf("io.Copy", i, 0)]
               ELSE [r |-> WithBody(req, o), client |-> cl, err |-> Nil]
      [] o.kind = "WithRequestOptions" ->
            Compose([r |-> req, client |-> cl, err |-> Nil], o.opts, i, 1)
      [] OTHER ->
            [r |-> WithRetryPolicy(req, o), client |-> cl, err |-> Nil]

\* ------------------------------------------------------------------- state
VARIABLES
    pc,         \* position of the caller: new, built, dry, do, send, wait, returned, handled
    client,     \* the *http.Client the Client and its Requests share
    r,          \* the Request
    cancelled,  \* the request's context is done
    opt,        \* the option the loop of the running Dry/Do called last
    optErrs,    \* what each option of the running Dry/Do returned, in order
    dryErr,     \* err of the running (or last) Dry
    attempt,    \* sender's attempt
    response,   \* sender's response
    errs,       \* sender's errs
    log,        \* outcome of every transport call of this Do, in order
    waits,      \* duration of every wait of this Do, in order
    bodies,     \* the body content every transport call of this Do was handed
    elapsed,    \* the duration of the running wait has passed
    result,     \* the Response Do returned
    steps,      \* the steps given to Handle
    stepErrs,   \* what each step of Handle returned, in order
    handleErr,  \* what Handle returned
    target,     \* the caller's object the deserialization steps decode into
    trace       \* what each step of Handle found and did, in order

cfgVars == <<opt, optErrs, dryErr>>
sendVars == <<attempt, response, errs, log, waits, bodies, elapsed>>
handleVars == <<steps, stepErrs, handleErr, target, trace>>
vars == <<pc, client, r, cancelled, opt, optErrs, dryErr, attempt, response, errs,
          log, waits, bodies, elapsed, result, steps, stepErrs, handleErr, target, trace>>

NoResult == [Response |-> NilResponse, Err |-> Nil]

\* the zero value of the caller's object
Zero == <<>>

Init ==
    /\ pc = "new"
    /\ client = [Timeout |-> 0]
    /\ r = NoRequest
    /\ cancelled = FALSE
    /\ opt = NoOpt
    /\ optErrs = <<>>
    /\ dryErr = Nil
    /\ attempt = 0
    /\ response = NilResponse
    /\ errs = <<>>
    /\ log = <<>>
    /\ waits = <<>>
    /\ bodies = <<>>
    /\ elapsed = FALSE
    /\ result = NoResult
    /\ steps = <<>>
    /\ stepErrs = <<>>
    /\ handleErr = Nil
    /\ target = Zero
    /\ trace = <<>>

\* ----------------------------------------------------------- Client.Request
ClientRequest(joinFails, newFails) ==
    /\ pc \in {"new", "returned", "handled"}
    /\ pc' = "built"
    /\ r' = NewRequest(joinFails, newFails)
    /\ cancelled' = FALSE
    /\ opt' = NoOpt
    /\ optErrs' = <<>>
    /\ dryErr' = Nil
    /\ attempt' = 0
    /\ response' = NilResponse
    /\ errs' = <<>>
    /\ log' = <<>>
    /\ waits' = <<>>
    /\ bodies' = <<>>
    /\ elapsed' = FALSE
    /\ result' = NoResult
    /\ steps' = <<>>
    /\ stepErrs' = <<>>
    /\ handleErr' = Nil
    /\ target' = Zero
    /\ trace' = <<>>
    /\ UNCHANGED client

\* --------------------------------------------------------------------- Dry
\* a guard that never stops Dry
DryShortCircuit_Never(req) == FALSE

\* the guard of Request.Dry
DryShortCircuit(req) == NonNil(req.Error)

\* Request.Dry, entry: a construction error is returned at once; otherwise
\* the loop over the options starts with err nil.
DryBegin ==
    /\ pc = "built"
    /\ opt' = NoOpt
    /\ optErrs' = <<>>
    /\ IF DryShortCircuit(r)
          THEN /\ dryErr' = r.Error
               /\ pc' = "built"
          ELSE /\ dryErr' = Nil
               /\ pc' = "dry"
    /\ UNCHANGED <<client, r, cancelled, sendVars, result, handleVars>>

\* the assignment of Dry's loop body: err = errors.Join(r.Error, o(r))
DryJoin(err, reqError, optErr) == Join(<<reqError, optErr>>)

\* Request.Dry, one round of the loop over opts
DryOption(o) ==
    /\ pc = "dry"
    /\ Len(optErrs) < MaxOpts
    /\ LET res == ApplyOption(r, client, o, Len(optErrs) + 1)
       IN  /\ r' = res.r
           /\ client' = res.client
           /\ opt' = o
           /\ optErrs' = Append(optErrs, res.err)
           /\ dryErr' = DryJoin(dryErr, res.r.Error, res.err)
    /\ UNCHANGED <<pc, cancelled, sendVars, result, handleVars>>

\* Request.Dry, return err
DryReturn ==
    /\ pc = "dry"
    /\ pc' = "built"
    /\ opt' = NoOpt
    /\ UNCHANGED <<client, r, cancelled, optErrs, dryErr, sendVars, result, handleVars>>

\* ---------------------------------------------------------------------- Do
\* a guard that looks at the http.Request alone
ConstructionFailed_RequestOnly(req) == ~req.Request

\* the guard of Request.Do
ConstructionFailed(req) == NonNil(req.Error) \/ ~req.Request

\* Request.Do, entry: with a construction error (or no http.Request) Do
\* returns an empty response carrying r.Error; otherwise the loop over the
\* options starts.
DoBegin ==
    /\ pc = "built"
    /\ opt' = NoOpt
    /\ optErrs' = <<>>
    /\ IF ConstructionFailed(r)
          THEN /\ result' = [Response |-> EmptyResponse, Err |-> r.Error]
               /\ pc' = "returned"
          ELSE /\ result' = result
               /\ pc' = "do"
    /\ UNCHANGED <<client, r, cancelled, dryErr, sendVars, handleVars>>

\* Request.Do, one round of the loop over opts: errs = append(errs, o(r))
DoOption(o) ==
    /\ pc = "do"
    /\ Len(optErrs) < MaxOpts
    /\ LET res == ApplyOption(r, client, o, Len(optErrs) + 1)
       IN  /\ r' = res.r
           /\ client' = res.client
           /\ opt' = o
           /\ optErrs' = Append(optErrs, res.err)
    /\ UNCHANGED <<pc, cancelled, dryErr, sendVars, result, handleVars>>

\* Request.Do, after the loop: r.sender(0, nil, []error{}); with attempt 0
\* sender goes straight to the transport call.
DoSend ==
    /\ pc = "do"
    /\ pc' = "send"
    /\ attempt' = 0
    /\ response' = NilResponse
    /\ errs' = <<>>
    /\ log' = <<>>
    /\ waits' = <<>>
    /\ bodies' = <<>>
    /\ elapsed' = FALSE
    /\ opt' = NoOpt
    /\ UNCHANGED <<client, r, cancelled, optErrs, dryErr, result, handleVars>>

\* ------------------------------------------------------------------ sender
\* a budget check that lets one more attempt through
Exhausted_OneMore(a, retries) == 0 < a /\ a > retries

\* a budget check that starts after the second attempt
Exhausted_SkipFirst(a, retries) == 1 < a /\ a >= retries

\* a budget check that always lets a second attempt through
Exhausted_FromSecond(a, retries) == 1 < a /\ a >= retries

\* sender's check on entry with 0 < attempt: the budget is used up
Exhausted(a, retries) == 0 < a /\ a >= retries

\* a backoff that does not grow with the attempt
Backoff_Constant(req, a) == req.FallbackDuration

\* a backoff that ignores the policy
Backoff_AlwaysLinear(req, a) == req.FallbackDuration * a

\* a backoff that counts the attempts from zero
Backoff_ZeroIndexed(req, a) ==
    IF req.FallbackPolicy = FallbackPolicyExponential
       THEN req.FallbackDuration * ((a - 1) * (a - 1))
       ELSE req.FallbackDuration * (a - 1)

\* the duration sender hands to wait before the call after attempt a
Backoff(req, a) ==
    IF req.FallbackPolicy = FallbackPolicyExponential
       THEN req.FallbackDuration * (a * a)
       ELSE req.FallbackDuration * a

\* a status error that numbers the attempts from zero
StatusError_ZeroIndexed(status, a) == Leaf("received HTTP status code", a - 1, status)

\* the error sender records for a response with a retryable status
StatusError(status, a) == Leaf("received HTTP status code", a, status)

\* the response variable after r.Client.Do returned: the := of the call
\* replaces the parameter, and an error of the transport comes with nil
AfterCall(prev, o, a) ==
    IF o.ok THEN Received(o.StatusCode, a) ELSE NilResponse

\* a recursive call that passes on the newest error alone
RecordError_Overwrite(es, e) == <<e>>

\* a recursive call that puts the newest error first
RecordError_Prepend(es, e) == <<e>> \o es

\* append(errs, err) of the recursive calls
RecordError(es, e) == Append(es, e)

\* a Do that forgets the attempt errors once a response was received
DoResult_DropOnResponse(optionErrs, resp, es) ==
    [Response |-> resp,
     Err |-> IF resp.present THEN Join(optionErrs) ELSE Join(optionErrs \o es)]

\* a Do that puts the attempt errors before the option errors
DoResult_AttemptsFirst(optionErrs, resp, es) ==
    [Response |-> resp, Err |-> Join(es \o optionErrs)]

\* Do's return value once sender returned (response, errs)
DoResult(optionErrs, resp, es) ==
    [Response |-> resp, Err |-> Join(optionErrs \o es)]

\* a wait that suspends for a zero duration too
Suspends_Always(d) == TRUE

\* wait returns at once, without suspending, when the duration is zero
Suspends(d) == d # 0

\* a call that hands the transport a fresh reader over the whole body
AfterTransport_Rewound(req, o) == req

\* r.Client.Do(r.Request): the transport reads from r.Request.Body, the one
\* reader every call of sender is given
AfterTransport(req, o) ==
    IF o.read THEN [req EXCEPT !.Body = Drained(req.Body)] ELSE req

\* The transport call of sender and what follows it up to the next call, the
\* next wait or the return: attempt++, r.Client.Do, and on an error or a
\* retryable status the recursive call with its budget check and its wait.
\* A done context makes the transport return the context's error.
Send(o) ==
    /\ pc = "send"
    /\ cancelled => ~o.ok
    /\ LET a     == attempt + 1
           resp  == AfterCall(response, o, a)
           retry == ~o.ok \/ o.StatusCode \in r.FallbackStatusCodes
           e     == IF o.ok THEN StatusError(o.StatusCode, a)
                            ELSE Leaf("transport", a, 0)
           es    == IF retry THEN RecordError(errs, e) ELSE errs
           d     == Backoff(r, a)
       IN  /\ attempt' = a
           /\ response' = resp
           /\ errs' = es
           /\ log' = Append(log, o)
           /\ bodies' = Append(bodies, ReadAll(r.Body))
           /\ r' = AfterTransport(r, o)
           /\ IF retry /\ ~Exhausted(a, r.Retries)
                 THEN /\ waits' = Append(waits, d)
                      /\ pc' = IF Suspends(d) THEN "wait" ELSE "send"
                      /\ result' = result
                 ELSE /\ waits' = waits
                      /\ pc' = "returned"
                      /\ result' = DoResult(optErrs, resp, es)
    /\ UNCHANGED <<client, cancelled, elapsed, cfgVars, handleVars>>

\* a wait that sleeps through the whole duration whatever the context does
WaitOver_TimerOnly(timeout, done) == timeout

\* <-ctx.Done() of the context derived with context.WithTimeout: it is done
\* when the duration has passed or when the request's context is done
WaitOver(timeout, done) == timeout \/ done

\* the duration of the running wait passes
Elapse ==
    /\ pc = "wait"
    /\ ~elapsed
    /\ elapsed' = TRUE
    /\ UNCHANGED <<pc, client, r, cancelled, cfgVars, attempt, response, errs,
                   log, waits, bodies, result, handleVars>>

\* Request.wait with a duration above zero: returns when the derived context
\* is done, by its timeout or because the request's context is done.
Wait ==
    /\ pc = "wait"
    /\ WaitOver(elapsed, cancelled)
    /\ pc' = "send"
    /\ elapsed' = FALSE
    /\ UNCHANGED <<client, r, cancelled, cfgVars, attempt, response, errs,
                   log, waits, bodies, result, handleVars>>

\* the request's context becomes done while Do sends or waits: the caller
\* cancels it or its deadline passes
Cancel ==
    /\ pc \in {"send", "wait"}
    /\ ~cancelled
    /\ cancelled' = TRUE
    /\ UNCHANGED <<pc, client, r, cfgVars, sendVars, result, handleVars>>

\* ------------------------------------------------------------------ Handle
\* fmt.Errorf(format) without arguments, the format a sequence of the
\* characters "%" and others: "%%" prints "%", "%" before a character c
\* prints "%!c(MISSING)", a "%" at the end prints "%!(NOVERB)".
RECURSIVE Errorf(_)
Errorf(format) ==
    IF format = <<>> THEN <<>>
    ELSE IF format[1] # "%" THEN <<format[1]>> \o Errorf(Tail(format))
    ELSE IF Len(format) = 1 THEN <<"%!(NOVERB)">>
    ELSE IF format[2] = "%" THEN <<"%">> \o Errorf(Tail(Tail(format)))
    ELSE <<"%!", format[2], "(MISSING)">> \o Errorf(Tail(Tail(format)))

\* fmt.Errorf("expected status code(s) '%v', received '%d'", codes, status)
ExpectedError(codes, status, i) ==
    [Leaf("expected status code(s)", i, status) EXCEPT !.codes = codes]

\* fmt.Errorf(string(body))
BodyError(body, status, i) ==
    [Leaf("body", i, status) EXCEPT !.msg = Errorf(body)]

\* a step that leaves the body as its read left it
Restored_Never(data) == Reader(<<>>)

\* response.Body = io.NopCloser(bytes.NewBuffer(body))
Restored(data) == Reader(data)

\* WithResponseStatusCodeAssertion(codes...) run as the i-th step: what it
\* returns
StatusCodeAssertion(resp, codes, i) ==
    IF resp.StatusCode \in codes THEN Nil
    ELSE IF resp.Body.present /\ ReadAll(resp.Body) # <<>>
            THEN BodyError(ReadAll(resp.Body), resp.StatusCode, i)
            ELSE ExpectedError(codes, resp.StatusCode, i)

\* the body WithResponseStatusCodeAssertion leaves
AssertionBody(resp, codes) ==
    IF resp.StatusCode \in codes \/ ~resp.Body.present THEN resp.Body
    ELSE Restored(ReadAll(resp.Body))

AssertedSets == {{200}, {404}}

\* the bodies a response may carry, and the ones the unmarshalers accept
ResponseBodies == {<<>>, <<"o", "k">>, <<"%">>, <<"%", "e">>, <<"%", "%">>}
Documents == {<<"o", "k">>}

\* a response step: a status assertion, or WithResponseBody with the object
\* (a pointer or nil), the unmarshaler and the status codes
Step(kind, codes, object, unmarshaler) ==
    [kind |-> kind, codes |-> codes, object |-> object, unmarshaler |-> unmarshaler]

AssertSteps == {Step("assert", c, "ptr", "json") : c \in AssertedSets}

BodySteps ==
    {Step("body", c, o, u) :
        c \in {{}} \cup AssertedSets, o \in {"ptr", "nil"}, u \in {"json", "custom"}}

ResponseSteps == AssertSteps \cup BodySteps

\* the unmarshaler called on the body: json.Unmarshal returns an error for a
\* nil object and for a body that is no document; a caller's unmarshaler
\* that writes through the nil object panics
Unmarshal(unmarshaler, data, object, obj, i) ==
    IF object = "nil"
       THEN IF unmarshaler = "json"
               THEN [target |-> obj, err |-> Leaf("InvalidUnmarshalError", i, 0),
                     panic |-> FALSE]
               ELSE [target |-> obj, err |-> Nil, panic |-> TRUE]
       ELSE IF data \in Documents
               THEN [target |-> data, err |-> Nil, panic |-> FALSE]
               ELSE [target |-> obj, err |-> Leaf("SyntaxError", i, 0),
                     panic |-> FALSE]

\* a step that decodes whatever the status is
Selected_Always(status, codes) == TRUE

\* WithResponseBody: the status selects the step
Selected(status, codes) == codes = {} \/ status \in codes

\* a recover that hands back no error
Recovered_Nil(i) == Nil

\* the deferred recover of WithResponseBody: err = fmt.Errorf(fmt.Sprint(p))
Recovered(i) == Leaf("panic", i, 0)

\* one step run as the i-th on the response and the caller's object: the
\* body it found, the body and the object it leaves, what it returns, and
\* whether it called the unmarshaler
RunStep(resp, obj, step, i) ==
    IF step.kind = "assert"
       THEN [found |-> resp.Body, Body |-> AssertionBody(resp, step.codes),
             target |-> obj, err |-> StatusCodeAssertion(resp, step.codes, i),
             decoded |-> FALSE, panicked |-> FALSE]
       ELSE IF Selected(resp.StatusCode, step.codes) /\ resp.Body.present
               THEN LET body == ReadAll(resp.Body)
                        u == Unmarshal(step.unmarshaler, body, step.object, obj, i)
                    IN  [found |-> resp.Body, Body |-> Restored(body),
                         target |-> u.target,
                         err |-> IF u.panic THEN Recovered(i) ELSE u.err,
                         decoded |-> TRUE, panicked |-> u.panic]
               ELSE [found |-> resp.Body, Body |-> resp.Body, target |-> obj,
                     err |-> Nil, decoded |-> FALSE, panicked |-> FALSE]

\* the steps of Handle run in order from step i on: the response, the
\* caller's object and what the steps did
RECURSIVE RunSteps(_, _, _, _, _)
RunSteps(resp, obj, opts, i, done) ==
    IF i > Len(opts) THEN [Response |-> resp, target |-> obj, trace |-> done]
    ELSE LET one == RunStep(resp, obj, opts[i], i)
         IN  RunSteps([resp EXCEPT !.Body = one.Body], one.target, opts, i + 1,
                      Append(done, one))

\* a guard that never stops Handle
HandleShortCircuit_Never(res) == FALSE

\* a guard that stops Handle only when no response was received
HandleShortCircuit_WithoutResponse(res) == NonNil(res.Err) /\ ~res.Response.present

\* Handle's guard: the response carries an error of the send phase
HandleShortCircuit(res) == NonNil(res.Err)

\* the assignment of Handle's loop body: err = errors.Join(r.Err, o(r))
HandleJoin(err, respErr, stepErr) == Join(<<respErr, stepErr>>)

\* Handle's loop over the results of the steps, from step i on
RECURSIVE HandleLoop(_, _, _, _)
HandleLoop(err, respErr, results, i) ==
    IF i > Len(results) THEN err
    ELSE HandleLoop(HandleJoin(err, respErr, results[i]), respErr, results, i + 1)

\* Response.Handle
Handle(opts) ==
    /\ pc = "returned"
    /\ pc' = "handled"
    /\ steps' = opts
    /\ IF HandleShortCircuit(result)
          THEN /\ stepErrs' = <<>>
               /\ handleErr' = result.Err
               /\ trace' = <<>>
               /\ UNCHANGED <<result, target>>
          ELSE LET run == RunSteps(result.Response, target, opts, 1, <<>>)
                   results == [i \in 1..Len(opts) |-> run.trace[i].err]
               IN  /\ stepErrs' = results
                   /\ handleErr' = HandleLoop(Nil, result.Err, results, 1)
                   /\ result' = [result EXCEPT !.Response = run.Response]
                   /\ target' = run.target
                   /\ trace' = run.trace
    /\ UNCHANGED <<client, r, cancelled, cfgVars, sendVars>>

\* -------------------------------------------------------------------- Spec
Next ==
    \/ \E joinFails \in BOOLEAN, newFails \in BOOLEAN :
          ClientRequest(joinFails, newFails)
    \/ DryBegin
    \/ \E o \in RequestOptions : DryOption(o)
    \/ DryReturn
    \/ DoBegin
    \/ \E o \in RequestOptions : DoOption(o)
    \/ DoSend
    \/ \E o \in Outcomes : Send(o)
    \/ Elapse
    \/ Wait
    \/ Cancel
    \/ \E opts \in SeqsUpTo(AssertSteps, MaxSteps) : Handle(opts)

Spec == Init /\ [][Next]_vars

\* Configuring a request with Dry and Do, the retries of WithRetryPolicy drawn
\* from both sides of its clamps; no request is sent.
ConfigureNext ==
    \/ \E joinFails \in BOOLEAN, newFails \in BOOLEAN :
          ClientRequest(joinFails, newFails)
    \/ DryBegin
    \/ \E o \in PolicyOptions : DryOption(o)
    \/ DryReturn
    \/ DoBegin
    \/ \E o \in PolicyOptions : DoOption(o)

ConfigureSpec == Init /\ [][ConfigureNext]_vars

\* Configuring a request with Dry and Do from plain, body and composite
\* options; no request is sent.
ComposeNext ==
    \/ \E joinFails \in BOOLEAN, newFails \in BOOLEAN :
          ClientRequest(joinFails, newFails)
    \/ DryBegin
    \/ \E o \in ComposeOptions : DryOption(o)
    \/ DryReturn
    \/ DoBegin
    \/ \E o \in ComposeOptions : DoOption(o)

ComposeSpec == Init /\ [][ComposeNext]_vars

\* Do with the retries of WithRetryPolicy drawn from both sides of its
\* clamps.  A request with more retries than MaxRetriesArg meets a transport
\* that fails or answers 200; the others meet every outcome.
LimitOutcomes(req) ==
    IF req.Retries <= MaxRetriesArg THEN Outcomes
    ELSE {TransportError, TransportStatus(200)}

LimitNext ==
    \/ \E joinFails \in BOOLEAN, newFails \in BOOLEAN :
          ClientRequest(joinFails, newFails)
    \/ DoBegin
    \/ \E o \in PolicyOptions : DoOption(o)
    \/ DoSend
    \/ \E o \in LimitOutcomes(r) : Send(o)
    \/ Elapse
    \/ Wait
    \/ Cancel

LimitSpec == Init /\ [][LimitNext]_vars

\* Do on a request given a body: the options set a body and a retry policy,
\* and the transport may fail before or after it wrote the request.
BodyOutcomes == Outcomes \cup {TransportErrorAfterWrite}

SendOptions ==
    BodyOptions
    \cup {Opt("WithRetryPolicy", n, d, FallbackPolicyLinear, {503}) :
            n \in 0..MaxRetriesArg, d \in 0..MaxDuration}

BodyNext ==
    \/ \E joinFails \in BOOLEAN, newFails \in BOOLEAN :
          ClientRequest(joinFails, newFails)
    \/ DoBegin
    \/ \E o \in SendOptions : DoOption(o)
    \/ DoSend
    \/ \E o \in BodyOutcomes : Send(o)
    \/ Elapse
    \/ Wait
    \/ Cancel

BodySpec == Init /\ [][BodyNext]_vars

\* Handle on a Response the caller holds: any status, with or without a
\* body, with or without an error of the send phase.
HeldResponses ==
    {[Response |-> [Received(s, 1) EXCEPT !.Body = b], Err |-> e] :
        s \in StatusCodes,
        b \in {NoBody} \cup {Reader(d) : d \in ResponseBodies},
        e \in {Nil, Join(<<Leaf("transport", 1, 0)>>)}}

HandleInit ==
    /\ pc = "returned"
    /\ client = [Timeout |-> 0]
    /\ r = NoRequest
    /\ cancelled = FALSE
    /\ opt = NoOpt
    /\ optErrs = <<>>
    /\ dryErr = Nil
    /\ attempt = 0
    /\ response = NilResponse
    /\ errs = <<>>
    /\ log = <<>>
    /\ waits = <<>>
    /\ bodies = <<>>
    /\ elapsed = FALSE
    /\ result \in HeldResponses
    /\ steps = <<>>
    /\ stepErrs = <<>>
    /\ handleErr = Nil
    /\ target = Zero
    /\ trace = <<>>

HandleNext == \E opts \in SeqsUpTo(ResponseSteps, MaxSteps) : Handle(opts)

HandleSpec == HandleInit /\ [][HandleNext]_vars

\* ------------------------------------------------------------------ claims
Max(a, b) == IF a >= b THEN a ELSE b

\* e is x or wraps it (errors.Is over the tree of a multi-error)
RECURSIVE Contains(_, _)
Contains(e, x) ==
    \/ e = x
    \/ /\ e.kind = "join"
       /\ \E i \in 1..Len(e.errs) : Contains(e.errs[i], x)

\* Do has returned (and Handle may have run on its Response)
Returned == pc \in {"returned", "handled"}

\* Do went through the send phase
Sent == log # <<>>

\* every transport call of this Do ended in a transport-level error
AllTransportFailed == \A i \in 1..Len(log) : ~log[i].ok

\* the errors of the options that failed in the running Dry/Do, in order
FailedOptErrs == SelectSeq(optErrs, NonNil)

\* the retries value of the repository's retry-policy tests
TestRetries == 3

\* transport calls begun so far in this Do: those that returned and the one
\* in flight
Started == Len(log) + (IF pc = "send" THEN 1 ELSE 0)

\* the response of the last transport call that received one, nil if none did
LastReceived ==
    LET got == {i \in 1..Len(log) : log[i].ok}
    IN  IF got = {} THEN NilResponse
        ELSE LET i == CHOOSE j \in got : \A k \in got : k <= j
             IN  Received(log[i].StatusCode, i)

\* the last attempt of this Do failed: Do returned because the budget ran out
BudgetRanOut ==
    /\ Sent
    /\ \/ ~log[Len(log)].ok
       \/ log[Len(log)].StatusCode \in r.FallbackStatusCodes

C3_HandleKeepsEveryStepError ==
    (pc = "handled" /\ result.Err = Nil)
        => /\ Len(stepErrs) = Len(steps)
           /\ \A i \in 1..Len(stepErrs) :
                 NonNil(stepErrs[i]) => Contains(handleErr, stepErrs[i])

\* C4: Dry on a Request without a construction error returns an error that
\* contains the error of every option that failed, whatever its position.
C4_DryKeepsEveryOptionError ==
    (pc = "built" /\ r.Error = Nil)
        => \A i \in 1..Len(optErrs) :
              NonNil(optErrs[i]) => Contains(dryErr, optErrs[i])

\* C5: once an option of a Do or Dry has returned an error, no later option
\* of that call is executed and, in a Do, no transport attempt is made.
C5_OptionErrorStopsTheCall ==
    \A i \in 1..Len(optErrs) :
        NonNil(optErrs[i]) => (i = Len(optErrs) /\ Started = 0)

\* C6: the Response Do returns always embeds a non-nil http.Response.
C6_ResponseNeverNil ==
    Returned => result.Response.present

\* C7: a Request with a construction error (Error non-nil, or no
\* http.Request) never gets past Do's guard: no option runs, no transport
\* call is made, and Do returns an empty non-nil http.Response whose Err is
\* exactly the construction error.
C7_ConstructionErrorStopsDo ==
    (NonNil(r.Error) \/ ~r.Request)
        => /\ pc \notin {"do", "send", "wait"}
           /\ Started = 0
           /\ Returned => /\ result.Response = EmptyResponse
                          /\ result.Err = r.Error
                          /\ NonNil(result.Err)
                          /\ optErrs = <<>>

C7_Witness ==
    /\ pc = "returned"
    /\ ~r.Request
    /\ r.Error = Join(<<Leaf("NewRequest", 0, 0)>>)
    /\ result = [Response |-> EmptyResponse, Err |-> r.Error]

\* C8: Handle on a Response with a non-nil Err returns exactly that error
\* and invokes none of the given steps.
C8_HandleReturnsSendError ==
    (pc = "handled" /\ NonNil(result.Err))
        => /\ handleErr = result.Err
           /\ stepErrs = <<>>

C8_Witness ==
    /\ pc = "handled"
    /\ NonNil(result.Err)
    /\ Len(steps) = 2
    /\ handleErr = result.Err
    /\ stepErrs = <<>>

\* C9: once the request's context is cancelled during a wait or a send, no
\* further transport call begins.
C9_NoCallAfterCancel ==
    [][(cancelled /\ pc \in {"send", "wait"}) => Started' <= Started]_vars

\* C10: when the budget runs out, Do returns the last response that was
\* received from the transport in that Do (nil only if none was), also when
\* a later attempt failed at transport level after a retryable status.
C10_LastReceivedResponseReturned ==
    (Returned /\ BudgetRanOut) => result.Response = LastReceived

RECURSIVE SumSeq(_)
SumSeq(q) == IF q = <<>> THEN 0 ELSE Head(q) + SumSeq(Tail(q))

\* 1 + 2 + ... + n and 1^2 + 2^2 + ... + n^2
SumTo(n) == (n * (n + 1)) \div 2
SumSquaresTo(n) == (n * (n + 1) * (2 * n + 1)) \div 6

C13_WaitOfAttemptK ==
    \A k \in 1..Len(waits) :
        /\ k <= Len(log)
        /\ waits[k] = IF r.FallbackPolicy = FallbackPolicyExponential
                         THEN r.FallbackDuration * k * k
                         ELSE r.FallbackDuration * k

C13_Witness ==
    /\ Len(waits) >= 2
    /\ r.FallbackPolicy \notin Policies
    /\ r.FallbackDuration >= 1
    /\ waits[2] = r.FallbackDuration * 2

\* C14: with Retries = 0 Do makes exactly one transport call and no wait and
\* returns at once, whatever the call gave: a transport error, a retryable
\* status or any other status.
C14_ZeroRetriesOneCall ==
    r.Retries = 0
        => /\ Started <= 1
           /\ waits = <<>>
           /\ pc # "wait"
           /\ Sent => /\ Returned
                      /\ Len(log) = 1
                      /\ result.Response = (IF log[1].ok
                                              THEN Received(log[1].StatusCode, 1)
                                              ELSE NilResponse)

C14_Witness ==
    /\ Returned
    /\ r.Retries = 0
    /\ r.FallbackStatusCodes = {503}
    /\ log = <<TransportStatus(503)>>
    /\ waits = <<>>

\* C15: an attempt answered with a status in FallbackStatusCodes records the
\* error 'received HTTP status code S in attempt N' and is retried while
\* budget remains; an attempt answered with any other status, 4xx and 5xx
\* included, ends the loop at once with that response and adds no error.
C15_StatusDecidesRetry ==
    \A i \in 1..Len(log) :
        log[i].ok =>
            IF log[i].StatusCode \in r.FallbackStatusCodes
               THEN /\ i <= Len(errs)
                    /\ errs[i] = Leaf("received HTTP status code", i, log[i].StatusCode)
                    /\ (i = Len(log) /\ Returned) => i >= r.Retries
               ELSE /\ i = Len(log)
                    /\ Returned
                    /\ result.Response = Received(log[i].StatusCode, i)
                    /\ Len(errs) = i - 1

C15_Witness ==
    /\ Returned
    /\ r.FallbackStatusCodes = {503}
    /\ log = <<TransportStatus(503), TransportStatus(404)>>
    /\ result.Response = Received(404, 2)
    /\ errs = <<Leaf("received HTTP status code", 1, 503)>>

\* C16: when an attempt succeeds after k >= 1 failed attempts, Do returns
\* the successful response together with an aggregated error that lists the
\* k errors of the failed attempts, in order, after the errors of the failed
\* options (and nothing else).
C16_SuccessKeepsEarlierErrors ==
    (/\ Returned /\ Len(log) >= 2
     /\ log[Len(log)].ok
     /\ log[Len(log)].StatusCode \notin r.FallbackStatusCodes)
        => /\ result.Response = Received(log[Len(log)].StatusCode, Len(log))
           /\ Len(errs) = Len(log) - 1
           /\ \A i \in 1..Len(errs) : errs[i].n = i
           /\ Unwrap(result.Err) = FailedOptErrs \o errs

C16_Witness ==
    /\ Returned
    /\ Len(log) = 3
    /\ log[3] = TransportStatus(200)
    /\ FailedOptErrs = <<>>
    /\ Len(Unwrap(result.Err)) = 2
    /\ result.Response = Received(200, 3)

\* C17: a Request created from the Client finds the Client's transport as
\* New made it: no option applied to an earlier Request of the same Client
\* (WithTimeout in particular) has changed it.
C17_NewRequestSeesUntouchedClient ==
    [][(pc \in {"new", "returned", "handled"} /\ pc' = "built")
          => client'.Timeout = 0]_vars

\* C19: within one Do the transport calls are sequential, each call after
\* the first begins only once the wait after the attempt before it is over,
\* and the attempt errors are in the aggregated error in attempt order,
\* after the errors of the options.
C19_SequentialAttemptsOrderedErrors ==
    /\ attempt = Len(log)
    /\ pc \in {"send", "wait"} => Len(waits) = Len(log)
    /\ (Returned /\ Sent) => Len(waits) = Len(log) - 1
    /\ \A i \in 1..Len(errs) : errs[i].n = i
    /\ (Returned /\ Sent) => result.Err = Join(FailedOptErrs \o errs)

C19_Witness ==
    /\ Returned
    /\ Len(errs) >= 2
    /\ FailedOptErrs # <<>>
    /\ Unwrap(result.Err) = FailedOptErrs \o errs
    /\ waits[1] > 0

\* C18: the backoff wait returns as soon as its duration has elapsed or the
\* request's context is done, whichever comes first, and produces no error; a
\* wait of duration zero returns without suspending at all.  While sender is
\* suspended in wait the duration is not zero and the return is possible
\* exactly when the timer or the context is done; the return changes nothing
\* but the position of sender, which goes on to the next call; a step that
\* computes a wait of zero goes on to the next call at once.
C18_WaitReturnsOnTimerOrContext ==
    [][ /\ pc = "wait" =>
             /\ waits # <<>>
             /\ waits[Len(waits)] # 0
             /\ (ENABLED Wait) <=> (elapsed \/ cancelled)
        /\ (pc = "wait" /\ pc' # "wait") =>
             /\ elapsed \/ cancelled
             /\ pc' = "send"
             /\ errs' = errs
             /\ response' = response
             /\ attempt' = attempt
             /\ result' = result
        /\ (Len(waits') = Len(waits) + 1 /\ waits'[Len(waits')] = 0) =>
             pc' = "send"
      ]_vars

\* the context is done before the duration has passed, and wait can return
C18_Witness ==
    /\ pc = "wait"
    /\ cancelled
    /\ ~elapsed
    /\ waits[Len(waits)] > 0
    /\ ENABLED Wait

\* C20: after WithRetryPolicy(retries, ...) is applied, Request.Retries equals
\* retries clamped to the range [0,10] (negative gives 0, above 10 gives 10),
\* and FallbackDuration, FallbackPolicy and FallbackStatusCodes equal the given
\* arguments; the option never returns an error.
C20_RetriesClampedPolicyStored ==
    opt.kind = "WithRetryPolicy" =>
        /\ opt.retries < 0 => r.Retries = 0
        /\ opt.retries > RetriesLimit => r.Retries = RetriesLimit
        /\ opt.retries \in 0..RetriesLimit => r.Retries = opt.retries
        /\ r.FallbackDuration = opt.duration
        /\ r.FallbackPolicy = opt.policy
        /\ r.FallbackStatusCodes = opt.statuscodes
        /\ optErrs # <<>>
        /\ optErrs[Len(optErrs)] = Nil

\* WithRetryPolicy was given more retries than the limit
C20_Witness ==
    /\ opt.kind = "WithRetryPolicy"
    /\ opt.retries > RetriesLimit
    /\ r.Retries = RetriesLimit
    /\ optErrs # <<>>

\* C21: every request option, including a composite built with
\* WithRequestOptions, either changes the Request and returns nil, or returns
\* an error and leaves the observable state of the Request unchanged.
C21_OptionFailsWithoutChange ==
    [][ (Len(optErrs') = Len(optErrs) + 1 /\ optErrs'[Len(optErrs')] # Nil)
            => (r' = r /\ client' = client) ]_vars

\* C22: the status assertion step returns nil when the response status is one
\* of the given codes; on mismatch it returns an error whose message is the
\* raw body content when the body is non-empty, and otherwise exactly
\* "expected status code(s) '<codes>', received '<status>'".
C22_AssertionMessageIsRawBody ==
    \A i \in 1..Len(trace) :
        steps[i].kind = "assert" =>
            LET status == result.Response.StatusCode
                body   == trace[i].found
            IN  IF status \in steps[i].codes
                   THEN stepErrs[i] = Nil
                   ELSE IF body.present /\ body.data # <<>>
                           THEN /\ stepErrs[i].kind = "leaf"
                                /\ stepErrs[i].msg = body.data
                           ELSE /\ stepErrs[i].tag = "expected status code(s)"
                                /\ stepErrs[i].codes = steps[i].codes
                                /\ stepErrs[i].code = status

TargetBefore(i) == IF i = 1 THEN Zero ELSE trace[i - 1].target

C25_PanicReturnedAsError ==
    \A i \in 1..Len(trace) :
        trace[i].panicked =>
            /\ pc = "handled"
            /\ NonNil(stepErrs[i])
            /\ NonNil(handleErr)

\* C26: Dry applies the given options to the Request but never invokes the
\* transport: after any Dry call the number of transport calls is unchanged,
\* and when the Request already carries a construction error Dry returns that
\* error without applying any option.  The steps of Dry are the ones between
\* the positions built and dry.
C26_DryNeverSendsAndStopsOnError ==
    [][ /\ pc = "dry" => r.Error = Nil
        /\ (pc \in {"built", "dry"} /\ pc' \in {"built", "dry"}) =>
              /\ log' = log
              /\ attempt' = attempt
              /\ response' = response
              /\ result' = result
        /\ (pc = "built" /\ pc' \in {"built", "dry"} /\ r.Error # Nil) =>
              /\ pc' = "built"
              /\ dryErr' = r.Error
              /\ optErrs' = <<>>
              /\ r' = r
              /\ client' = client
      ]_vars

\* Dry returned the construction error of the Request
C26_Witness ==
    /\ pc = "built"
    /\ r.Error # Nil
    /\ dryErr = r.Error
    /\ optErrs = <<>>
    /\ log = <<>>

C28_EveryAttemptGetsTheFullBody ==
    \A i \in 1..Len(bodies) : bodies[i] = bodies[1]

\* C29: when a request succeeds only after at least one failed attempt, the
\* Response returned by Do has a non-nil Err, so a following Handle invokes
\* none of its steps (no status assertion, no deserialization into the
\* caller's target) and returns the errors of the earlier attempts although
\* the final response was received successfully.
C29_LateSuccessSkipsTheSteps ==
    (/\ Returned
     /\ Len(log) >= 2
     /\ log[Len(log)].ok
     /\ log[Len(log)].StatusCode \notin r.FallbackStatusCodes)
        => /\ result.Response.present
           /\ result.Response.StatusCode = log[Len(log)].StatusCode
           /\ result.Err # Nil
           /\ \A i \in 1..(Len(log) - 1) :
                 \E j \in 1..Len(Unwrap(result.Err)) :
                     /\ Unwrap(result.Err)[j].n = i
                     /\ Unwrap(result.Err)[j].tag
                            \in {"transport", "received HTTP status code"}
           /\ pc = "handled" => /\ stepErrs = <<>>
                                 /\ trace = <<>>
                                 /\ target = Zero
                                 /\ handleErr = result.Err

\* the second call was answered 200 and Handle was given two steps
C29_Witness ==
    /\ pc = "handled"
    /\ Len(log) = 2
    /\ log[2] = TransportStatus(200)
    /\ result.Response.StatusCode = 200
    /\ Len(steps) = 2
    /\ stepErrs = <<>>
    /\ handleErr # Nil
    /\ handleErr = result.Err

\* C30: for a Request without a construction error, the Response returned by
\* Do has Err == nil if and only if every option passed to Do returned nil
\* and the first transport attempt returned a response whose status is not in
\* FallbackStatusCodes; every option error and every failed attempt is
\* present in Err, options first.
C30_ErrNilIffNothingFailed ==
    (Returned /\ Sent) =>
        LET failed == {i \in 1..Len(log) :
                         ~log[i].ok \/ log[i].StatusCode \in r.FallbackStatusCodes}
            optFailed == {i \in 1..Len(optErrs) : optErrs[i] # Nil}
            all == Unwrap(result.Err)
        IN  /\ result.Err = Nil <=>
                  /\ optFailed = {}
                  /\ log[1].ok
                  /\ log[1].StatusCode \notin r.FallbackStatusCodes
            /\ Len(all) = Cardinality(optFailed) + Cardinality(failed)
            /\ \A i \in optFailed :
                  \E j \in 1..Cardinality(optFailed) : all[j] = optErrs[i]
            /\ \A i \in failed :
                  \E j \in (Cardinality(optFailed) + 1)..Len(all) :
                      /\ all[j].n = i
                      /\ all[j].tag = IF log[i].ok THEN "received HTTP status code"
                                                   ELSE "transport"

\* an option failed, the first call failed and the second was answered 200
C30_Witness ==
    /\ Returned
    /\ Len(log) = 2
    /\ ~log[1].ok
    /\ log[2] = TransportStatus(200)
    /\ optErrs # <<>>
    /\ optErrs[1] # Nil
    /\ Unwrap(result.Err) = <<optErrs[1], Leaf("transport", 1, 0)>>

====
